---------------------------- MODULE Spec2Model ----------------------------
(***************************************************************************)
(* A model of vica's data preparation:                                     *)
(*   - split_and_shred.py: shred_all = _profile_sequences (the profile     *)
(*     table is the input here), _split_levels, _select_contigs with its   *)
(*     inner process_examples and writeseq;                                *)
(*   - tfrecord_maker.py: convert_to_tfrecords = external_sort, join,      *)
(*     _data_to_tfrecords with _label_lookup.                              *)
(* Random draws (numpy.random.choice) are nondeterministic choices.        *)
(***************************************************************************)
EXTENDS Integers, Sequences, FiniteSets, TLC

(***************************************************************************)
(* Bounds of the model.                                                    *)
(***************************************************************************)
MaxNPerClass == 2     \* n_per_class ranges over 1..MaxNPerClass
MaxRows == 2          \* rows of the merge file
MaxKmer == 2          \* train_eval.kmerlength ranges over 1..MaxKmer
MaxCodon == 2         \* train_eval.codonlength ranges over 1..MaxCodon

(***************************************************************************)
(* Program constants.                                                      *)
(***************************************************************************)
Null == 0             \* None: sltaxon / cltaxon when the lineage has none
LineWidth == 60       \* writeseq wraps the fragment at 60 characters
TenthDen == 10        \* the N-fraction threshold 0.1 is 1/TenthDen

Min(a, b) == IF a < b THEN a ELSE b

(***************************************************************************)
(* Inputs of shred_all.                                                    *)
(***************************************************************************)
ClassOrder == <<2, 10239>>        \* keys of `classes`, in dict order
ClassSet == {ClassOrder[i] : i \in 1..Len(ClassOrder)}
Taxa == {101}                     \* taxon ids at the split level
TestFracs == {<<1, 10>>, <<1, 2>>, <<3, 5>>, <<9, 10>>}  \* testfrac, <<num, den>>
NPerClass == 1..MaxNPerClass      \* n_per_class
FragLens == {10, 11}              \* `length`, the fragment length
Splits == {"test", "train"}
FileKeys == Splits \X ClassSet    \* <outdir>/<split>/<class>.fasta

\* The sequence index: the contents of its three records behind pyfaidx.
SeqCatalog ==
  << <<"A","C","G","T","A","C","G","T","A","C">>,
     <<"N","N","G","T","A","C","G","T","A","C","G","T","A">>,
     <<"A","C","G","T","A","N","N","T","A","C","G","T">> >>
SeqIds == 1..Len(SeqCatalog)      \* keys of the sequence index
seqobj == [k \in SeqIds |-> SeqCatalog[k]]

\* The initial states of the output directory tree a run can meet.
DirStates ==
  { {}, {"outdir"}, {"outdir", "test"}, {"outdir", "train"},
    {"outdir", "test", "train"} }

VARIABLES
  \* ---- split_and_shred ----
  df,            \* profile table: row -> [taxlevelid, classid]
  testfrac, n_per_class, length,
  fs,            \* existing directories among outdir, outdir/test, outdir/train
  cd,            \* the split plan of _split_levels
  files,         \* content of each fragment file, a sequence of records
  opened,        \* fragment files created so far
  exampletype, ci, testvect, vi, recs_written, tot_recs,
  testcount, traincount,
  last,          \* the last iteration of the loop at line 133 (history)
  pc, err,
  \* ---- tfrecord_maker ----
  tf

shredvars == <<df, testfrac, n_per_class, length, fs, cd, files, opened,
               exampletype, ci, testvect, vi, recs_written, tot_recs,
               testcount, traincount, last, pc, err>>
vars == <<shredvars, tf>>

(***************************************************************************)
(* Python helpers.                                                         *)
(***************************************************************************)
\* round(num/den) for num >= 0, den > 0: Python 3 rounds halves to even.
Round(num, den) ==
  LET q == num \div den
      r == num % den
  IN  IF 2 * r < den THEN q
      ELSE IF 2 * r > den THEN q + 1
      ELSE IF q % 2 = 0 THEN q ELSE q + 1

\* s[a:b] of a sequence, 0 <= a: the end is clipped to len(s).
Slice(s, a, b) == SubSeq(s, a + 1, Min(b, Len(s)))

\* str.count("N")
CountN(s) == Cardinality({k \in 1..Len(s) : s[k] = "N"})

(***************************************************************************)
(* The taxlevelid column as Python sees it.  _profile_sequences stores     *)
(* None for a lineage without the split rank (line 70).  pandas keeps a    *)
(* column of None alone as objects, and turns None into NaN in a column    *)
(* that also holds taxon ids (float64).  Iterating a float column yields a *)
(* new float per row, and NaN is equal to no object but itself: a Python   *)
(* set holds one NaN per such row.                                         *)
(***************************************************************************)
FloatColumn ==
  /\ \E r \in SeqIds : df[r].taxlevelid = Null
  /\ \E r \in SeqIds : df[r].taxlevelid # Null

Cell(r) ==
  IF df[r].taxlevelid # Null THEN <<"id", df[r].taxlevelid>>
  ELSE IF FloatColumn THEN <<"nan", r>>
  ELSE <<"None", 0>>

\* An element as numpy.random.choice hands it back: the array holds copies,
\* so a NaN comes back as another object.
Boxed(k) == IF k[1] = "nan" THEN <<"npnan", k[2]>> ELSE k

IsNullKey(k) == k[1] \in {"nan", "npnan", "None"}

\* df.taxlevelid.isin(values): pandas matches a null cell with a null value.
IsIn(r, values) ==
  IF df[r].taxlevelid # Null THEN <<"id", df[r].taxlevelid>> \in values
  ELSE \E k \in values : IsNullKey(k)

(***************************************************************************)
(* _split_levels                                                           *)
(***************************************************************************)
ClassRows(taxid) == {r \in SeqIds : df[r].classid = taxid}
ClassIds(taxid) == {Cell(r) : r \in ClassRows(taxid)}

TestSize(clength) == Round(clength * testfrac[1], testfrac[2])

TrainIds(classids, testids) == classids \ testids

\* The plans of one class: every choice of `test` elements without
\* replacement.
ClassPlans(taxid) ==
  LET classids == ClassIds(taxid)
      clength == Cardinality(classids)
      test == TestSize(clength)
  IN  { [test |-> {Boxed(k) : k \in chosen},
         train |-> TrainIds(classids, {Boxed(k) : k \in chosen}),
         total |-> clength] :
        chosen \in {S \in SUBSET classids : Cardinality(S) = test} }

NoPlan == [c \in ClassSet |-> [test |-> {}, train |-> {}, total |-> 0]]

SplitLevels ==
  /\ pc = "split"
  /\ \/ /\ \E plan \in [ClassSet -> UNION {ClassPlans(c) : c \in ClassSet}] :
             /\ \A c \in ClassSet : plan[c] \in ClassPlans(c)
             /\ cd' = plan
          /\ pc' = "dirs"
          /\ err' = err
     \/ \* older numpy releases: choice from an empty list raises, also for
        \* size 0 ("a must be non-empty"); newer ones return an empty array
        /\ \E c \in ClassSet : ClassIds(c) = {}
        /\ pc' = "error"
        /\ err' = [exc |-> "ValueError", line |-> 93]
        /\ cd' = cd
  /\ UNCHANGED <<df, testfrac, n_per_class, length, fs, files, opened,
                 exampletype, ci, testvect, vi, recs_written, tot_recs,
                 testcount, traincount, last, tf>>

(***************************************************************************)
(* _select_contigs: the directory set-up, lines 149-159                    *)
(***************************************************************************)
MakeDirs(dirs) ==
  LET d1 == IF "outdir" \notin dirs THEN dirs \cup {"outdir"} ELSE dirs
      d2 == IF "test" \notin d1 THEN d1 \cup {"test"} ELSE d1
      \* line 158 tests testdir again before making traindir
      d3 == IF "test" \notin d2 THEN d2 \cup {"train"} ELSE d2
  IN  d3

SetupDirs ==
  /\ pc = "dirs"
  /\ fs' = MakeDirs(fs)
  /\ exampletype' = "test"
  /\ ci' = 1
  /\ tot_recs' = 0
  /\ pc' = "class"
  /\ UNCHANGED <<df, testfrac, n_per_class, length, cd, files, opened,
                 testvect, vi, recs_written, testcount, traincount,
                 last, err, tf>>

(***************************************************************************)
(* process_examples: lines 118-132, one class up to the open of its file   *)
(***************************************************************************)
TestDf(taxid, split) == {r \in SeqIds : IsIn(r, cd[taxid][split])}

SampleSize(taxid, split) ==
  Round(n_per_class * Cardinality(cd[taxid][split]), cd[taxid].total)

Vectors(rows, size) == [1..size -> rows]

Raised(e, line) == [exc |-> e, line |-> line]
NoError == Raised("none", 0)

Abort(e, line) ==
  /\ pc' = "error"
  /\ err' = Raised(e, line)
  /\ UNCHANGED <<testvect, vi, files, opened>>

BeginClass ==
  /\ pc = "class"
  /\ LET taxid == ClassOrder[ci] IN
       IF cd[taxid].total = 0
       THEN Abort("ZeroDivisionError", 121)
       ELSE IF TestDf(taxid, exampletype) = {}
       THEN Abort("ValueError", 129)
       ELSE \E v \in Vectors(TestDf(taxid, exampletype),
                             SampleSize(taxid, exampletype)) :
              /\ testvect' = v
              /\ IF exampletype \in fs                      \* line 132
                 THEN /\ files' = [files EXCEPT
                                     ![<<exampletype, taxid>>] = <<>>]
                      /\ opened' = opened \cup {<<exampletype, taxid>>}
                      /\ vi' = 1
                      /\ pc' = "loop"
                      /\ err' = err
                 ELSE /\ pc' = "error"
                      /\ err' = Raised("FileNotFoundError", 132)
                      /\ UNCHANGED <<vi, files, opened>>
  /\ recs_written' = 0
  /\ UNCHANGED <<df, testfrac, n_per_class, length, fs, cd, exampletype, ci,
                 tot_recs, testcount, traincount, last, tf>>

(***************************************************************************)
(* process_examples: lines 133-145, one drawn name, and writeseq           *)
(***************************************************************************)
LongEnough(seq_length, len) == seq_length > len

\* FewNs with the comparison of line 142 turned into <=.
FewNsOrEqual(c, len) == TenthDen * c <= len

\* count("N")/length < 0.1.  Both operands of the division are small
\* integers, so the quotient is the double nearest to c/length and compares
\* with the literal 0.1 as c/length compares with 1/10.
FewNs(c, len) == TenthDen * c < len

Chunks(result) ==
  [k \in 1..((Len(result) + LineWidth - 1) \div LineWidth) |->
     Slice(result, LineWidth * (k - 1), LineWidth * k)]

\* What writeseq appends to the handle: the label's fields and the lines.
writeseq(name, pos, len) ==
  [name |-> name, pos |-> pos, end |-> pos + len,
   lines |-> Chunks(Slice(seqobj[name], pos, pos + len))]

TotRecsStep(t) == t + 0                                     \* line 145

ProcessName ==
  /\ pc = "loop"
  /\ vi <= Len(testvect)
  /\ LET name == testvect[vi]
         seq_length == Len(seqobj[name])
         key == <<exampletype, ClassOrder[ci]>>
     IN  IF LongEnough(seq_length, length)
         THEN \E pos \in 0..(seq_length - length - 1) :
                LET endpos == pos + length
                    c == CountN(Slice(seqobj[name], pos, endpos))
                IN  IF FewNs(c, length)
                    THEN /\ files' = [files EXCEPT ![key] =
                                        Append(@, writeseq(name, pos, length))]
                         /\ recs_written' = recs_written + 1
                         /\ tot_recs' = TotRecsStep(tot_recs)
                         /\ last' = [name |-> name, pos |-> pos, ns |-> c,
                                     wrote |-> TRUE, key |-> key]
                    ELSE /\ last' = [name |-> name, pos |-> pos, ns |-> c,
                                     wrote |-> FALSE, key |-> key]
                         /\ UNCHANGED <<files, recs_written, tot_recs>>
         ELSE /\ last' = [name |-> name, pos |-> -1, ns |-> 0,
                          wrote |-> FALSE, key |-> key]
              /\ UNCHANGED <<files, recs_written, tot_recs>>
  /\ vi' = vi + 1
  /\ UNCHANGED <<df, testfrac, n_per_class, length, fs, cd, opened,
                 exampletype, ci, testvect, testcount, traincount,
                 pc, err, tf>>

(***************************************************************************)
(* process_examples: line 146, the file is closed and the class logged     *)
(***************************************************************************)
NoLast == [name |-> 0, pos |-> -1, ns |-> 0, wrote |-> FALSE,
           key |-> <<"none", 0>>]

EndClass ==
  /\ pc = "loop"
  /\ vi > Len(testvect)
  /\ IF ci < Len(ClassOrder)
     THEN /\ ci' = ci + 1
          /\ pc' = "class"
     ELSE /\ ci' = ci
          /\ pc' = "return"
  \* the vector, its index and the last iteration are dead after the loop
  /\ testvect' = <<>>
  /\ vi' = 1
  /\ last' = NoLast
  /\ UNCHANGED <<df, testfrac, n_per_class, length, fs, cd, files, opened,
                 exampletype, recs_written, tot_recs, testcount, traincount,
                 err, tf>>

(***************************************************************************)
(* process_examples returns tot_recs (line 147) to lines 161-163           *)
(***************************************************************************)
ReturnExamples ==
  /\ pc = "return"
  /\ IF exampletype = "test"
     THEN /\ testcount' = tot_recs
          /\ exampletype' = "train"
          /\ ci' = 1
          /\ tot_recs' = 0
          /\ pc' = "class"
          /\ traincount' = traincount
     ELSE /\ traincount' = tot_recs
          /\ pc' = "done"
          /\ UNCHANGED <<testcount, exampletype, ci, tot_recs>>
  /\ UNCHANGED <<df, testfrac, n_per_class, length, fs, cd, files, opened,
                 testvect, vi, recs_written, last, err, tf>>

(***************************************************************************)
(* tfrecord_maker.py.  The state of one convert_to_tfrecords call is the   *)
(* record tf; its fields carry the names of the source.                    *)
(***************************************************************************)
\* config["split_shred"]["classes"], keys in order
ClassDicts == { <<2, 10239>>, <<2, 1224, 10239>> }

\* The taxonomy behind ncbi.get_lineage: taxid -> lineage (root first).
\* A taxid outside the domain is unknown to the database (ValueError).
Lineages ==
  [t \in {"562", "10760", "12908"} |->
     CASE t = "562"   -> <<1, 2, 1224, 562>>
       [] t = "10760" -> <<1, 10239, 10760>>
       [] t = "12908" -> <<1, 12908>>]

\* Sequence ids, as the fields seqid.split("|") yields.
TfIds ==
  { <<"seq1">>, <<"tid", "562", "a1">>, <<"tid", "10760", "a2">>,
    <<"tid", "12908", "a3">>, <<"tid", "0", "a4">> }

\* The side maps: the ids that have an entry (json.load).
SideMaps == { {}, {<<"tid", "562", "a1">>} }

Range(f) == {f[k] : k \in DOMAIN f}

\* create_class2labels: class taxid -> its index in the configuration
class2labels(classdict) ==
  [t \in Range(classdict) |->
     (CHOOSE k \in 1..Len(classdict) : classdict[k] = t) - 1]

\* _label_lookup.  The try block fails on an id without a second field
\* (IndexError), an unknown taxid (ValueError) and a lineage that meets zero
\* or several classes (AssertionError).  The handler then evaluates
\* str(taxid), unbound when the split failed, and random.randint, while the
\* module imports no `random` and binds no `classdict`.
_label_lookup(labels, seqid) ==
  IF Len(seqid) < 2
  THEN [kind |-> "raise", exc |-> "UnboundLocalError", line |-> 97,
        value |-> -1]
  ELSE LET taxid == seqid[2]
           classtaxid ==
             IF taxid \in DOMAIN Lineages
             THEN DOMAIN labels \cap Range(Lineages[taxid])
             ELSE {}
       IN  IF taxid \in DOMAIN Lineages /\ Cardinality(classtaxid) = 1
           THEN [kind |-> "return", exc |-> "none", line |-> 95,
                 value |-> labels[CHOOSE t \in classtaxid : TRUE]]
           ELSE [kind |-> "raise", exc |-> "NameError", line |-> 98,
                 value |-> -1]

\* Row r of the merge file after strip().split(","): the id, then the
\* features (numbered so that every position holds another value).
MergeLine(seqid, r, width) == <<seqid>> \o [j \in 1..width |-> 10 * r + j]

KmerSlice(line, kend) == Slice(line, 1, kend)               \* line 131
CodonSlice(line, kend, cend) == Slice(line, kend, cend)     \* line 132

\* The example of lines 133-156 for one row.
Example(line, kend, cend, minhashdatadict, hmmerdatadict, label) ==
  [id |-> line[1],
   kmer |-> KmerSlice(line, kend),
   codon |-> CodonSlice(line, kend, cend),
   minhash |-> IF line[1] \in minhashdatadict
               THEN <<"score">> ELSE <<"nohits">>,
   hmmer |-> IF line[1] \in hmmerdatadict
             THEN <<"hit1", "hit2">> ELSE <<"nohits">>,
   label |-> label]

TfRaise(e, line) ==
  [tf EXCEPT !.pc = "raised", !.exc = [exc |-> e, line |-> line]]

\* external_sort, lines 42-48: a failure of sort is caught and logged, the
\* function returns None, and convert_to_tfrecords ignores what it returns.
ExternalSortKmer ==
  /\ tf.pc = "sort_kmer"
  /\ \E ok \in BOOLEAN :
       tf' = [tf EXCEPT !.pc = "sort_codon",
                        !.ksorted = ok,
                        !.sortlog = IF ok THEN @ ELSE @ + 1]
  /\ UNCHANGED shredvars

ExternalSortCodon ==
  /\ tf.pc = "sort_codon"
  /\ \E ok \in BOOLEAN :
       tf' = [tf EXCEPT !.pc = "join",
                        !.csorted = ok,
                        !.sortlog = IF ok THEN @ ELSE @ + 1]
  /\ UNCHANGED shredvars

\* join, lines 66-74: the merge file is opened for writing, then join runs
\* with check=True.  A failed join raises CalledProcessError, which the
\* handler for RuntimeError does not catch.
Join ==
  /\ tf.pc = "join"
  /\ \E ok \in BOOLEAN :
       IF ok /\ tf.ksorted /\ tf.csorted
       THEN tf' = [tf EXCEPT !.pc = "open", !.mergefile = tf.joined,
                             !.merged = TRUE]
       ELSE tf' = [TfRaise("CalledProcessError", 71) EXCEPT
                     !.mergefile = <<>>, !.merged = TRUE]
  /\ UNCHANGED shredvars

\* _data_to_tfrecords, lines 118-126
OpenData ==
  /\ tf.pc = "open"
  /\ tf' = [tf EXCEPT !.pc = "rows"]
  /\ UNCHANGED shredvars

\* _data_to_tfrecords, lines 128-157: one row of the merge file
SerializeRow ==
  /\ tf.pc = "rows"
  /\ tf.i < Len(tf.mergefile)
  /\ LET i == tf.i + 1
         kend == tf.kmerlength
         cend == kend + tf.codonlength
         line == MergeLine(tf.mergefile[i], i, tf.kmerlength + tf.codonlength)
         label == _label_lookup(class2labels(tf.classdict), line[1])
     IN  IF label.kind = "raise"
         THEN tf' = [TfRaise(label.exc, label.line) EXCEPT
                       !.i = i, !.label = label]
         ELSE tf' = [tf EXCEPT
                       !.i = i, !.label = label,
                       !.records = Append(@,
                          Example(line, kend, cend, tf.minhashdatadict,
                                  tf.hmmerdatadict, label.value))]
  /\ UNCHANGED shredvars

\* _data_to_tfrecords, lines 158-159: i is bound by the loop only
CloseAndLog ==
  /\ tf.pc = "rows"
  /\ tf.i = Len(tf.mergefile)
  /\ IF tf.i = 0
     THEN tf' = TfRaise("UnboundLocalError", 159)
     ELSE tf' = [tf EXCEPT !.pc = "done", !.logged = tf.i]
  /\ UNCHANGED shredvars

NoLabel == [kind |-> "none", exc |-> "none", line |-> 0, value |-> -1]

TfInputs ==
  [sort : BOOLEAN,
   kmerlength : 1..MaxKmer,
   codonlength : 1..MaxCodon,
   classdict : ClassDicts,
   joined : UNION {[1..n -> TfIds] : n \in 0..MaxRows},
   minhashdatadict : SideMaps,
   hmmerdatadict : SideMaps]

\* The state at the call of convert_to_tfrecords, lines 183-191.
TfStart(in) ==
  [pc |-> IF in.sort THEN "sort_kmer" ELSE "join",
   sort |-> in.sort,
   kmerlength |-> in.kmerlength,
   codonlength |-> in.codonlength,
   classdict |-> in.classdict,
   joined |-> in.joined,
   minhashdatadict |-> in.minhashdatadict,
   hmmerdatadict |-> in.hmmerdatadict,
   ksorted |-> ~in.sort,       \* the file at path ksorted exists
   csorted |-> ~in.sort,
   merged |-> FALSE,           \* the merge file exists
   mergefile |-> <<>>,
   sortlog |-> 0,              \* "Input files could not be sorted" entries
   i |-> 0,                    \* 0: the loop variable is not bound yet
   label |-> NoLabel,
   records |-> <<>>,
   logged |-> -1,
   exc |-> [exc |-> "none", line |-> 0]]

\* No convert_to_tfrecords call is running.
TfIdle ==
  [TfStart([sort |-> FALSE, kmerlength |-> 1, codonlength |-> 1,
            classdict |-> <<2, 10239>>, joined |-> <<>>,
            minhashdatadict |-> {}, hmmerdatadict |-> {}])
     EXCEPT !.pc = "idle"]

ProfileRows == [taxlevelid : Taxa \cup {Null}, classid : ClassSet \cup {Null}]

Init ==
  /\ df \in [SeqIds -> ProfileRows]
  /\ testfrac \in TestFracs
  /\ n_per_class \in NPerClass
  /\ length \in FragLens
  /\ fs \in DirStates
  /\ cd = NoPlan
  /\ files = [k \in FileKeys |-> <<>>]
  /\ opened = {}
  /\ exampletype = "test"
  /\ ci = 1
  /\ testvect = <<>>
  /\ vi = 1
  /\ recs_written = 0
  /\ tot_recs = 0
  /\ testcount = 0
  /\ traincount = 0
  /\ last = NoLast
  /\ pc = "split"
  /\ err = NoError
  /\ tf = TfIdle

Next ==
  \/ SplitLevels
  \/ SetupDirs
  \/ BeginClass
  \/ ProcessName
  \/ EndClass
  \/ ReturnExamples

Spec == Init /\ [][Next]_vars

\* convert_to_tfrecords alone, on every input within the bounds.
ShredIdle ==
  /\ df = [r \in SeqIds |-> [taxlevelid |-> Null, classid |-> Null]]
  /\ testfrac = <<1, 10>>
  /\ n_per_class = 1
  /\ length = 10
  /\ fs = {}
  /\ cd = NoPlan
  /\ files = [k \in FileKeys |-> <<>>]
  /\ opened = {}
  /\ exampletype = "test"
  /\ ci = 1
  /\ testvect = <<>>
  /\ vi = 1
  /\ recs_written = 0
  /\ tot_recs = 0
  /\ testcount = 0
  /\ traincount = 0
  /\ last = NoLast
  /\ pc = "idle"
  /\ err = NoError

TfInit == ShredIdle /\ tf \in {TfStart(in) : in \in TfInputs}

TfNext ==
  \/ ExternalSortKmer
  \/ ExternalSortCodon
  \/ Join
  \/ OpenData
  \/ SerializeRow
  \/ CloseAndLog

TfSpec == TfInit /\ [][TfNext]_vars

(***************************************************************************)
(* The claims.                                                             *)
(***************************************************************************)
\* The taxon a key stands for (Null for every null key).
TaxonOf(k) == IF IsNullKey(k) THEN Null ELSE k[2]
TaxaOf(keys) == {TaxonOf(k) : k \in keys}

\* The number of fragment records in a set of files.
RECURSIVE SumLen(_)
SumLen(S) ==
  IF S = {} THEN 0
  ELSE LET x == CHOOSE y \in S : TRUE IN Len(files[x]) + SumLen(S \ {x})

\* The split-level taxa of the rows of one class (None is the taxon Null).
ClassTaxa(c) == {df[r].taxlevelid : r \in ClassRows(c)}

\* C1: in the plan _split_levels returns, for every class, test and train
\* share no taxon, together they are the distinct split-level taxa of the
\* class's rows, total is the number of those taxa, and test holds
\* round(total * testfrac) elements.
C1_SplitPlanInvariant ==
  pc = "dirs" =>
    \A c \in ClassSet :
      /\ TaxaOf(cd[c].test) \cap TaxaOf(cd[c].train) = {}
      /\ TaxaOf(cd[c].test) \cup TaxaOf(cd[c].train) = ClassTaxa(c)
      /\ cd[c].total = Cardinality(ClassTaxa(c))
      /\ Cardinality(cd[c].test) =
           Round(cd[c].total * testfrac[1], testfrac[2])

\* C1 restricted to the classes whose rows all have a split-level taxon:
\* there the plan does satisfy the four conjuncts.
C1_NullFreeClasses ==
  pc = "dirs" =>
    \A c \in ClassSet :
      Null \notin ClassTaxa(c) =>
        /\ TaxaOf(cd[c].test) \cap TaxaOf(cd[c].train) = {}
        /\ TaxaOf(cd[c].test) \cup TaxaOf(cd[c].train) = ClassTaxa(c)
        /\ cd[c].total = Cardinality(ClassTaxa(c))
        /\ Cardinality(cd[c].test) =
             Round(cd[c].total * testfrac[1], testfrac[2])

HeldOutForTest(s) ==
  \E c \in ClassSet :
    df[s].classid = c /\ df[s].taxlevelid \in TaxaOf(cd[c].test)

InTrainTaxon(s) ==
  \E c \in ClassSet :
    df[s].classid = c /\ df[s].taxlevelid \in TaxaOf(cd[c].train)

\* C2: no fragment in a train file comes from a sequence whose taxon was
\* held out for test, and no fragment in a test file comes from a sequence
\* of a train taxon.
C2_NoLeak ==
  \A key \in FileKeys : \A k \in 1..Len(files[key]) :
    LET s == files[key][k].name
    IN  /\ key[1] = "train" => ~HeldOutForTest(s)
        /\ key[1] = "test" => ~InTrainTaxon(s)

RECURSIVE Concat(_)
Concat(lines) ==
  IF lines = <<>> THEN <<>> ELSE Head(lines) \o Concat(Tail(lines))

\* C3: an iteration of the loop over the drawn names writes a fragment if
\* and only if the sequence is longer than the fragment length and the
\* chosen window holds fewer than a tenth of N bases; the fragment written
\* is the window [pos, pos+length) with 0 <= pos < S - length, so every
\* fragment in a file has exactly `length` bases and ends before S.
C3_FragmentRule ==
  /\ last # NoLast =>
       LET S == Len(seqobj[last.name])
           window == Slice(seqobj[last.name], last.pos, last.pos + length)
       IN  /\ last.wrote <=> (S > length /\ TenthDen * last.ns < length)
           /\ S > length =>
                /\ 0 <= last.pos
                /\ last.pos < S - length
                /\ last.ns = CountN(window)
           /\ last.wrote =>
                LET f == files[last.key][Len(files[last.key])]
                IN  /\ f.name = last.name
                    /\ f.pos = last.pos
                    /\ f.end = last.pos + length
                    /\ Concat(f.lines) = window
  /\ \A key \in FileKeys : \A k \in 1..Len(files[key]) :
       LET f == files[key][k]
       IN  /\ Len(Concat(f.lines)) = length
           /\ 0 <= f.pos
           /\ f.end = f.pos + length
           /\ f.end < Len(seqobj[f.name])

\* C3, its case: a window holding exactly a tenth of N bases has just been
\* rejected, in a file that already holds a written fragment.
C3_Witness ==
  /\ last # NoLast
  /\ ~last.wrote
  /\ Len(seqobj[last.name]) > length
  /\ TenthDen * last.ns = length
  /\ Len(files[last.key]) > 0

\* C4: every record holds the first kmerlength features of its row as kmer
\* and the next codonlength features as codon.
C4_SliceLayout ==
  \A k \in 1..Len(tf.records) :
    LET line == MergeLine(tf.mergefile[k], k,
                          tf.kmerlength + tf.codonlength)
    IN  /\ tf.records[k].kmer = [j \in 1..tf.kmerlength |-> line[1 + j]]
        /\ tf.records[k].codon =
             [j \in 1..tf.codonlength |-> line[1 + tf.kmerlength + j]]

\* C5: _label_lookup never raises, and what it returns is a label in
\* [0, number of classes).
C5_LabelNeverFatal ==
  /\ tf.label.kind # "raise"
  /\ tf.label.kind = "return" => tf.label.value \in 0..(Len(tf.classdict) - 1)

SerializerEnded ==
  \/ tf.pc = "done"
  \/ tf.pc = "raised" /\ tf.exc.line \in {97, 98, 159}

\* C6: when _data_to_tfrecords ends, it has written one record per row of
\* the merge file, in order, with the "nohits" sentinels for ids absent from
\* the side maps, and has logged the number of rows.
C6_OneRecordPerRow ==
  SerializerEnded =>
    /\ Len(tf.records) = Len(tf.mergefile)
    /\ \A k \in 1..Len(tf.records) :
         /\ tf.records[k].id = tf.mergefile[k]
         /\ tf.mergefile[k] \notin tf.minhashdatadict =>
              tf.records[k].minhash = <<"nohits">>
         /\ tf.mergefile[k] \notin tf.hmmerdatadict =>
              tf.records[k].hmmer = <<"nohits">>
    /\ tf.logged = Len(tf.mergefile)

\* C7: once the directory set-up of _select_contigs is over, outdir/test
\* and outdir/train both exist.
C7_DirsExist ==
  pc \in {"class", "loop", "return", "done", "error"} /\ err.line # 93 =>
    {"test", "train"} \subseteq fs

\* C8: the total process_examples returns for a split is the number of
\* fragments written to that split's files.
C8_TotalsMatch ==
  /\ (exampletype = "train" \/ pc = "done") =>
       testcount = SumLen({key \in FileKeys : key[1] = "test"})
  /\ pc = "done" =>
       traincount = SumLen({key \in FileKeys : key[1] = "train"})

\* C9: for every class of the plan and each split, process_examples gets as
\* far as its draws (it does not stop at line 121 or 129), draws exactly
\* round(n_per_class * |taxa in split| / total) names, each a row of a taxon
\* of that split, and writes at most that many fragments.
C9_DrawsMade ==
  /\ err.line \notin {121, 129}
  /\ pc = "loop" =>
       LET taxid == ClassOrder[ci]
       IN  /\ Len(testvect) =
                Round(n_per_class * Cardinality(cd[taxid][exampletype]),
                      cd[taxid].total)
           /\ \A k \in 1..Len(testvect) :
                df[testvect[k]].taxlevelid \in TaxaOf(cd[taxid][exampletype])
           /\ Len(files[<<exampletype, taxid>>]) <= Len(testvect)

\* C10: a failed sort or join raises nothing out of external_sort / join,
\* and a failed sort has been logged.
C10_FailureContained ==
  /\ tf.exc.exc # "CalledProcessError"
  /\ (tf.sort /\ tf.pc # "sort_kmer" /\ ~tf.ksorted) => tf.sortlog >= 1

=============================================================================
